---- MODULE Spec2Model ----
(***************************************************************************)
(* Model of scripts/log-writer.py: the CLI entry point main, and the       *)
(* emission loop run_writer with build_log_payload and insert_log.         *)
(*                                                                         *)
(* One thread of control.  pc names the statement about to run.  Raising   *)
(* an exception stores it in exc, records the statement that raised it in  *)
(* raisedAt and moves pc to "raised"; main's try/except then decides how   *)
(* the program ends.  The environment acts in three ways: the values of    *)
(* the command line and the process environment (chosen in Init), the      *)
(* result of the table-store call (success, an error, or an interrupt      *)
(* while it blocks), and a keyboard interrupt delivered while any other    *)
(* statement of main or run_writer is running.  Construction and           *)
(* propagation of an exception that has been raised is one step.           *)
(* The inputs are those the CLI accepts: the script name may be empty,     *)
(* count and interval may be negative (time.sleep rejects a negative       *)
(* interval with a ValueError).                                            *)
(***************************************************************************)
EXTENDS Integers, Sequences, FiniteSets, TLC

VARIABLES
    pc,        \* statement about to run
    argv,      \* command line: each option given (<<v>>) or absent (<<>>)
    env,       \* process environment: each variable set (<<v>>) or unset (<<>>)
    args,      \* namespace returned by parse_args
    client,    \* <<>> until create_client returns, then <<[url, key]>>
    run_id,    \* run_writer's run_id
    sequence,  \* run_writer's sequence
    payload,   \* the record built for the current iteration
    exc,       \* the exception raised (NoExc while none)
    raisedAt,  \* the statement that raised exc
    stdout,    \* lines printed so far
    attempts,  \* one entry per call of insert_log: what it was given, how it ended
    built,     \* number of records build_log_payload has returned
    sleeps,    \* number of time.sleep calls started
    elapsed,   \* total of the completed pacing delays
    outcome    \* "running", "completed", "stopped" or "uncaught"

vars == <<pc, argv, env, args, client, run_id, sequence, payload, exc, raisedAt,
          stdout, attempts, built, sleeps, elapsed, outcome>>

----------------------------------------------------------------------------
(* Bounds of the model *)

MaxCount == 3
MaxFollowSeq == 4

(* Program constants *)

DefaultCount == 20
DefaultInterval == 1
ExecMsMin == 45
ExecMsMax == 1400

DefaultScript == "demo-script"

LOG_LEVELS == {"debug", "info", "warning", "error"}

LOG_MESSAGES ==
    { "Starting scheduled task",
      "Loading configuration",
      "Fetching upstream payload",
      "Transforming dataset",
      "Completed batch successfully",
      "Retrying after transient failure",
      "Writing output artifacts",
      "Heartbeat check" }

StoppedLine == <<"Log writer stopped.">>
ConfigErrorMsg == "Missing SUPABASE_URL or SUPABASE_SERVICE_ROLE_KEY in env."
ScriptErrorMsg == "script_name is required"
SleepErrorMsg == "sleep length must be non-negative"

(* Input domains *)

Opt(S) == {<<>>} \cup {<<x>> : x \in S}
ScriptChoices == {"", "etl-job"}
CountChoices == -1..MaxCount
IntervalChoices == {-1, 0, 2}
UrlChoices == {"", "http://127.0.0.1:54321"}
KeyChoices == {"", "service-role-key"}
RunIds == {"run-a", "run-b"}

----------------------------------------------------------------------------
(* Exceptions *)

NoCause == [type |-> "None", msg |-> ""]
NoExc == [type |-> "None", msg |-> "", cause |-> NoCause]
Raise(type, msg) == [type |-> type, msg |-> msg, cause |-> NoCause]
KeyboardInterrupt == Raise("KeyboardInterrupt", "")

\* errors the table-store client raises from insert(...).execute()
ClientErrors ==
    { Raise("APIError", "permission denied for table script_logs"),
      Raise("ConnectError", "connection refused") }

\* the classes an "except Exception" clause matches
IsException(type) == type \notin {"None", "KeyboardInterrupt", "SystemExit"}

----------------------------------------------------------------------------
(* parse_args *)

Given(opt, default) == IF opt = <<>> THEN default ELSE opt[1]

NoArgs == [script |-> "", count |-> 0, interval |-> 0, follow |-> FALSE]

parse_args(av) ==
    [ script   |-> Given(av.script, DefaultScript),
      count    |-> Given(av.count, DefaultCount),
      interval |-> Given(av.interval, DefaultInterval),
      follow   |-> av.follow ]

(* load_config *)

\* os.getenv: <<>> stands for None
Getenv(e, name) == e[name]

\* "not x" for a value of os.getenv: None and "" are falsy
Not(x) == x = <<>> \/ x = <<"">>

\* variant: "not url and not key", which lets one missing value through
ConfigMissingBoth(url, key) == Not(url) /\ Not(key)

\* line 59: not url or not key
ConfigMissing(url, key) == Not(url) \/ Not(key)

(* build_log_payload *)

NoPayload ==
    [ script_name |-> "", level |-> "", message |-> "",
      metadata |-> [run_id |-> "", sequence |-> 0, execution_ms |-> 0] ]

\* variant: the check left out ("script_name is None" is never true of a str)
ScriptNameIsNone(script_name) == FALSE

ScriptNameInvalid(script_name) == script_name = ""

\* variant: an upper end one too far, randint(45, 1401)
randint_past_end(a, b) == {a, a + 1, b, b + 1}

\* values of random.randint(a, b) the model draws: both ends and their neighbours
randint(a, b) == {a, a + 1, b - 1, b}

build_log_payload(script_name, rid, seq, level, message, ms) ==
    [ script_name |-> script_name,
      level       |-> level,
      message     |-> message,
      metadata    |-> [run_id |-> rid, sequence |-> seq, execution_ms |-> ms] ]

(* insert_log: the exception that leaves it, given the one the client raised *)

\* variant: a bare "except:" (or "except BaseException"), which also wraps
\* the interrupt
insert_log_bare_except(raised) ==
    [ type  |-> "RuntimeError",
      msg   |-> "Insert failed: " \o raised.msg,
      cause |-> [type |-> raised.type, msg |-> raised.msg] ]

insert_log(raised) ==
    IF IsException(raised.type)
    THEN [ type  |-> "RuntimeError",
           msg   |-> "Insert failed: " \o raised.msg,
           cause |-> [type |-> raised.type, msg |-> raised.msg] ]
    ELSE raised

(* run_writer *)

\* variant: "sequence < count", one iteration short
LoopCondStrict(follow, seq, count) == follow \/ seq < count

\* variant: the follow flag forgotten in the condition
LoopCondIgnoreFollow(follow, seq, count) == seq <= count

LoopCond(follow, seq, count) == follow \/ seq <= count

\* variant: the counter stepped twice per iteration
NextSequenceSkip(seq) == seq + 2

NextSequence(seq) == seq + 1

\* time.sleep raises ValueError for a negative length
SleepAccepts(interval) == interval >= 0

InsertedLine(seq, script_name) == <<"Inserted log", seq, "for", script_name>>

(* main: the statements its try block covers, and what its except clause catches *)

\* variant: the try block opened one statement earlier, around create_client
TryCoversClient(stmt) ==
    stmt \in {"create_client", "run_writer", "while", "build", "insert", "print",
              "incr", "sleep", "sleeping"}

TryCovers(stmt) ==
    stmt \in {"run_writer", "while", "build", "insert", "print", "incr",
              "sleep", "sleeping"}

MainCatches(type) == type = "KeyboardInterrupt"

----------------------------------------------------------------------------
Init ==
    /\ pc = "parse_args"
    /\ argv \in [ script : Opt(ScriptChoices), count : Opt(CountChoices),
                  interval : Opt(IntervalChoices), follow : BOOLEAN,
                  valid : BOOLEAN ]
    /\ env \in [ SUPABASE_URL : Opt(UrlChoices),
                 SUPABASE_SERVICE_ROLE_KEY : Opt(KeyChoices) ]
    /\ args = NoArgs
    /\ client = <<>>
    /\ run_id = ""
    /\ sequence = 0
    /\ payload = NoPayload
    /\ exc = NoExc
    /\ raisedAt = "none"
    /\ stdout = <<>>
    /\ attempts = <<>>
    /\ built = 0
    /\ sleeps = 0
    /\ elapsed = 0
    /\ outcome = "running"

RaiseAt(e) ==
    /\ exc' = e
    /\ raisedAt' = pc
    /\ pc' = "raised"

\* main, line 225: args = parse_args()
ParseArgsOk ==
    /\ pc = "parse_args"
    /\ argv.valid
    /\ args' = parse_args(argv)
    /\ pc' = "load_config"
    /\ UNCHANGED <<argv, env, client, run_id, sequence, payload, exc, raisedAt,
                   stdout, attempts, built, sleeps, elapsed, outcome>>

\* argparse rejects the command line
ParseArgsFail ==
    /\ pc = "parse_args"
    /\ ~argv.valid
    /\ RaiseAt(Raise("SystemExit", "2"))
    /\ UNCHANGED <<argv, env, args, client, run_id, sequence, payload,
                   stdout, attempts, built, sleeps, elapsed, outcome>>

\* main, line 226: url, key = load_config()
LoadConfigOk ==
    /\ pc = "load_config"
    /\ ~ConfigMissing(Getenv(env, "SUPABASE_URL"),
                      Getenv(env, "SUPABASE_SERVICE_ROLE_KEY"))
    /\ pc' = "create_client"
    /\ UNCHANGED <<argv, env, args, client, run_id, sequence, payload, exc,
                   raisedAt, stdout, attempts, built, sleeps, elapsed, outcome>>

LoadConfigFail ==
    /\ pc = "load_config"
    /\ ConfigMissing(Getenv(env, "SUPABASE_URL"),
                     Getenv(env, "SUPABASE_SERVICE_ROLE_KEY"))
    /\ RaiseAt(Raise("RuntimeError", ConfigErrorMsg))
    /\ UNCHANGED <<argv, env, args, client, run_id, sequence, payload,
                   stdout, attempts, built, sleeps, elapsed, outcome>>

\* main, line 227: client = create_client(url, key)
CreateClient ==
    /\ pc = "create_client"
    /\ client' = << [ url |-> Getenv(env, "SUPABASE_URL")[1],
                      key |-> Getenv(env, "SUPABASE_SERVICE_ROLE_KEY")[1] ] >>
    /\ pc' = "run_writer"
    /\ UNCHANGED <<argv, env, args, run_id, sequence, payload, exc, raisedAt,
                   stdout, attempts, built, sleeps, elapsed, outcome>>

\* run_writer, lines 153-154: run_id = str(uuid.uuid4()); sequence = 1
RunWriterStart ==
    /\ pc = "run_writer"
    /\ run_id' \in RunIds
    /\ sequence' = 1
    /\ pc' = "while"
    /\ UNCHANGED <<argv, env, args, client, payload, exc, raisedAt,
                   stdout, attempts, built, sleeps, elapsed, outcome>>

\* run_writer, line 156, condition true
LoopEnter ==
    /\ pc = "while"
    /\ LoopCond(args.follow, sequence, args.count)
    /\ args.follow => sequence <= MaxFollowSeq
    /\ pc' = "build"
    /\ UNCHANGED <<argv, env, args, client, run_id, sequence, payload, exc,
                   raisedAt, stdout, attempts, built, sleeps, elapsed, outcome>>

\* run_writer, line 156, condition false: run_writer and then main return
LoopExit ==
    /\ pc = "while"
    /\ ~LoopCond(args.follow, sequence, args.count)
    /\ pc' = "done"
    /\ outcome' = "completed"
    /\ UNCHANGED <<argv, env, args, client, run_id, sequence, payload, exc,
                   raisedAt, stdout, attempts, built, sleeps, elapsed>>

\* run_writer, line 157: payload = build_log_payload(script_name, run_id, sequence)
BuildOk ==
    /\ pc = "build"
    /\ ~ScriptNameInvalid(args.script)
    /\ \E level \in LOG_LEVELS, message \in LOG_MESSAGES,
          ms \in randint(ExecMsMin, ExecMsMax) :
          payload' = build_log_payload(args.script, run_id, sequence,
                                       level, message, ms)
    /\ built' = built + 1
    /\ pc' = "insert"
    /\ UNCHANGED <<argv, env, args, client, run_id, sequence, exc, raisedAt,
                   stdout, attempts, sleeps, elapsed, outcome>>

BuildFail ==
    /\ pc = "build"
    /\ ScriptNameInvalid(args.script)
    /\ RaiseAt(Raise("ValueError", ScriptErrorMsg))
    /\ UNCHANGED <<argv, env, args, client, run_id, sequence, payload,
                   stdout, attempts, built, sleeps, elapsed, outcome>>

Attempt(result, error) ==
    [ run_id   |-> payload.metadata.run_id,
      sequence |-> payload.metadata.sequence,
      result   |-> result,
      error    |-> error ]

\* run_writer, line 158: insert_log(client, payload); the client call returns
InsertOk ==
    /\ pc = "insert"
    /\ attempts' = Append(attempts, Attempt("ok", NoExc))
    /\ payload' = NoPayload
    /\ pc' = "print"
    /\ UNCHANGED <<argv, env, args, client, run_id, sequence, exc, raisedAt,
                   stdout, built, sleeps, elapsed, outcome>>

\* variant: the failure logged and the loop carried on
InsertFailContinue ==
    /\ pc = "insert"
    /\ \E error \in ClientErrors :
          attempts' = Append(attempts, Attempt("failed", error))
    /\ payload' = NoPayload
    /\ pc' = "print"
    /\ UNCHANGED <<argv, env, args, client, run_id, sequence, exc, raisedAt,
                   stdout, built, sleeps, elapsed, outcome>>

\* the client call raises an error
InsertFail ==
    /\ pc = "insert"
    /\ \E error \in ClientErrors :
          /\ attempts' = Append(attempts, Attempt("failed", error))
          /\ RaiseAt(insert_log(error))
    /\ payload' = NoPayload
    /\ UNCHANGED <<argv, env, args, client, run_id, sequence,
                   stdout, built, sleeps, elapsed, outcome>>

\* the interrupt arrives while the client call blocks
InsertInterrupted ==
    /\ pc = "insert"
    /\ attempts' = Append(attempts, Attempt("interrupted", KeyboardInterrupt))
    /\ RaiseAt(insert_log(KeyboardInterrupt))
    /\ payload' = NoPayload
    /\ UNCHANGED <<argv, env, args, client, run_id, sequence,
                   stdout, built, sleeps, elapsed, outcome>>

\* run_writer, line 159: print(f"Inserted log {sequence} for {script_name}")
Confirm ==
    /\ pc = "print"
    /\ stdout' = Append(stdout, InsertedLine(sequence, args.script))
    /\ pc' = "incr"
    /\ UNCHANGED <<argv, env, args, client, run_id, sequence, payload, exc,
                   raisedAt, attempts, built, sleeps, elapsed, outcome>>

\* run_writer, line 160: sequence += 1
Increment ==
    /\ pc = "incr"
    /\ sequence' = NextSequence(sequence)
    /\ pc' = "sleep"
    /\ UNCHANGED <<argv, env, args, client, run_id, payload, exc, raisedAt,
                   stdout, attempts, built, sleeps, elapsed, outcome>>

\* variant: no delay after the last record of a bounded run
SleepStartUnlessLast ==
    /\ pc = "sleep"
    /\ SleepAccepts(args.interval)
    /\ IF LoopCond(args.follow, sequence, args.count)
       THEN sleeps' = sleeps + 1 /\ pc' = "sleeping"
       ELSE sleeps' = sleeps /\ pc' = "while"
    /\ UNCHANGED <<argv, env, args, client, run_id, sequence, payload, exc,
                   raisedAt, stdout, attempts, built, elapsed, outcome>>

\* run_writer, line 161: time.sleep(interval) is called ...
SleepStart ==
    /\ pc = "sleep"
    /\ SleepAccepts(args.interval)
    /\ sleeps' = sleeps + 1
    /\ pc' = "sleeping"
    /\ UNCHANGED <<argv, env, args, client, run_id, sequence, payload, exc,
                   raisedAt, stdout, attempts, built, elapsed, outcome>>

\* ... or rejects the interval ...
SleepReject ==
    /\ pc = "sleep"
    /\ ~SleepAccepts(args.interval)
    /\ RaiseAt(Raise("ValueError", SleepErrorMsg))
    /\ UNCHANGED <<argv, env, args, client, run_id, sequence, payload,
                   stdout, attempts, built, sleeps, elapsed, outcome>>

\* ... and returns after the whole delay
SleepEnd ==
    /\ pc = "sleeping"
    /\ elapsed' = elapsed + args.interval
    /\ pc' = "while"
    /\ UNCHANGED <<argv, env, args, client, run_id, sequence, payload, exc,
                   raisedAt, stdout, attempts, built, sleeps, outcome>>

\* a keyboard interrupt is delivered while a statement other than the client
\* call is running (InsertInterrupted is the interrupt inside the call)
Interruptible ==
    {"parse_args", "load_config", "create_client", "run_writer", "while",
     "build", "print", "incr", "sleep", "sleeping"}

Interrupt ==
    /\ pc \in Interruptible
    /\ RaiseAt(KeyboardInterrupt)
    /\ UNCHANGED <<argv, env, args, client, run_id, sequence, payload,
                   stdout, attempts, built, sleeps, elapsed, outcome>>

\* main, lines 228-231: the except clause catches the exception
MainExcept ==
    /\ pc = "raised"
    /\ TryCovers(raisedAt) /\ MainCatches(exc.type)
    /\ stdout' = Append(stdout, StoppedLine)
    /\ outcome' = "stopped"
    /\ pc' = "done"
    /\ UNCHANGED <<argv, env, args, client, run_id, sequence, payload, exc,
                   raisedAt, attempts, built, sleeps, elapsed>>

\* the exception leaves main
MainUncaught ==
    /\ pc = "raised"
    /\ ~(TryCovers(raisedAt) /\ MainCatches(exc.type))
    /\ outcome' = "uncaught"
    /\ pc' = "done"
    /\ UNCHANGED <<argv, env, args, client, run_id, sequence, payload, exc,
                   raisedAt, stdout, attempts, built, sleeps, elapsed>>

Next ==
    \/ ParseArgsOk
    \/ ParseArgsFail
    \/ LoadConfigOk
    \/ LoadConfigFail
    \/ CreateClient
    \/ RunWriterStart
    \/ LoopEnter
    \/ LoopExit
    \/ BuildOk
    \/ BuildFail
    \/ InsertOk
    \/ InsertFail
    \/ InsertInterrupted
    \/ Confirm
    \/ Increment
    \/ SleepStart
    \/ SleepReject
    \/ SleepEnd
    \/ Interrupt
    \/ MainExcept
    \/ MainUncaught

Spec == Init /\ [][Next]_vars

----------------------------------------------------------------------------
(* What a run shows from outside *)

Last(s) == s[Len(s)]

\* the confirmation lines printed, in order
Confirmations == SelectSeq(stdout, LAMBDA l : Len(l) = 4)

AckPrinted == \E i \in 1..Len(stdout) : stdout[i] = <<"Log writer stopped.">>

Successes == Cardinality({i \in 1..Len(attempts) : attempts[i].result = "ok"})

AllSucceeded == \A i \in 1..Len(attempts) : attempts[i].result = "ok"

\* an interrupt has been delivered (inside the client call, or at raisedAt)
Interrupted ==
    \/ raisedAt = "insert" /\ Last(attempts).result = "interrupted"
    \/ raisedAt \notin {"none", "insert"} /\ exc.type = "KeyboardInterrupt"

\* the statements of run_writer
InRunWriter(stmt) ==
    stmt \in {"run_writer", "while", "build", "insert", "print", "incr",
              "sleep", "sleeping"}

\* run_writer has been called
Called == client # <<>>

----------------------------------------------------------------------------
\* C1: called with follow = false and count = N >= 0 (and, as the loop's
\* contract has it, a non-empty script name and a non-negative interval),
\* run_writer never makes more than N calls of insert_log; when every insertion
\* succeeded and no interrupt was delivered, it ends by returning normally
\* after exactly N calls (none for N = 0).
C1_BoundedRunMakesCountInsertions ==
    (Called /\ ~args.follow /\ args.count >= 0
        /\ args.script # "" /\ args.interval >= 0) =>
        /\ Len(attempts) <= args.count
        /\ (pc = "done" /\ AllSucceeded /\ ~Interrupted) =>
              /\ outcome = "completed"
              /\ exc.type = "None"
              /\ Len(attempts) = args.count

C1_Witness ==
    /\ pc = "done" /\ outcome = "completed"
    /\ ~args.follow /\ args.count = 3
    /\ Len(attempts) = 3 /\ AllSucceeded

\* C2: every record handed to insert_log in one run carries the run's run_id,
\* and the k-th attempt carries sequence k (from 1, no gap, no repeat).
C2_SequenceAndRunId ==
    /\ \A k \in 1..Len(attempts) :
          /\ attempts[k].sequence = k
          /\ attempts[k].run_id = attempts[1].run_id
          /\ attempts[k].run_id = run_id
    /\ pc = "insert" =>
          /\ payload.metadata.sequence = Len(attempts) + 1
          /\ payload.metadata.run_id = run_id

C2_Witness ==
    /\ Len(attempts) = 3
    /\ attempts[3].sequence = 3
    /\ attempts[3].run_id = "run-b"

\* C3: when the client call fails on attempt k, in either mode, run_writer
\* stops there: attempt k is the last, no confirmation for k is printed, no
\* delay follows, sequence stays k, and the caller gets a RuntimeError
\* "Insert failed: <cause>" chained to the client's error, which main does
\* not catch.
C3_InsertFailureStopsTheLoop ==
    \A k \in 1..Len(attempts) :
        attempts[k].result = "failed" =>
            /\ k = Len(attempts)
            /\ pc \in {"raised", "done"}
            /\ sequence = k
            /\ Len(Confirmations) = k - 1
            /\ sleeps = k - 1
            /\ raisedAt = "insert"
            /\ exc.type = "RuntimeError"
            /\ exc.msg = "Insert failed: " \o attempts[k].error.msg
            /\ exc.cause.type = attempts[k].error.type
            /\ exc.cause.msg = attempts[k].error.msg
            /\ exc.cause.type \in {"APIError", "ConnectError"}
            /\ pc = "done" => outcome = "uncaught"

C3_Witness ==
    /\ pc = "done"
    /\ args.follow /\ args.count = 0
    /\ Len(attempts) = 2
    /\ attempts[2].result = "failed"
    /\ exc.msg = "Insert failed: connection refused"

\* C4 as stated (for a non-empty script name and a non-negative interval):
\* with follow = true, whatever count is, the loop never ends by its condition
\* and an external interrupt is its only exit; after the interrupt the loop
\* has stopped, no error reaches the caller of main and "Log writer stopped."
\* is printed.
C4_InterruptIsTheOnlyExit ==
    (Called /\ args.follow /\ args.script # "" /\ args.interval >= 0) =>
        /\ outcome # "completed"
        /\ Interrupted => pc \in {"raised", "done"}
        /\ pc = "done" =>
              /\ Interrupted
              /\ outcome = "stopped"
              /\ Last(stdout) = <<"Log writer stopped.">>

\* C4 amended: with follow = true, whatever count is, the loop never ends by
\* its condition; it ends only by an external interrupt or by an error raised
\* inside the loop, which main does not catch (an insertion failure, the
\* validation error of an empty script name, or time.sleep rejecting a
\* negative interval).
\* After an interrupt the loop has stopped, no error reaches the caller of
\* main and "Log writer stopped." is printed.
C4_FollowEndsByInterruptOrError ==
    (Called /\ args.follow) =>
        /\ outcome # "completed"
        /\ Interrupted => pc \in {"raised", "done"}
        /\ (pc = "done" /\ Interrupted) =>
              /\ outcome = "stopped"
              /\ Last(stdout) = <<"Log writer stopped.">>
        /\ (pc = "done" /\ ~Interrupted) =>
              /\ outcome = "uncaught"
              /\ ~AckPrinted
              /\ \/ exc.type = "RuntimeError" /\ Last(attempts).result = "failed"
                 \/ exc.type = "ValueError" /\ raisedAt = "build"
                       /\ args.script = ""
                 \/ exc.type = "ValueError" /\ raisedAt = "sleep"
                       /\ args.interval < 0

C4_Witness ==
    /\ pc = "done" /\ outcome = "stopped"
    /\ args.follow /\ args.count = 0
    /\ Len(attempts) = 3
    /\ Interrupted /\ raisedAt = "sleeping"

\* C5: an interrupt delivered anywhere in run_writer, in either mode, stays a
\* KeyboardInterrupt (never an "Insert failed" RuntimeError) and ends in the
\* stop acknowledgment and a normal exit; an insertion failure ends in an
\* uncaught error and never in the stop acknowledgment.
C5_InterruptIsNotAFailure ==
    /\ (Interrupted /\ InRunWriter(raisedAt)) =>
          /\ exc.type = "KeyboardInterrupt"
          /\ exc.cause.type = "None"
          /\ pc = "done" =>
                /\ outcome = "stopped"
                /\ Last(stdout) = <<"Log writer stopped.">>
    /\ (Len(attempts) > 0 /\ Last(attempts).result = "failed") =>
          /\ exc.type = "RuntimeError"
          /\ ~AckPrinted
          /\ pc = "done" => outcome = "uncaught"

C5_Witness ==
    /\ pc = "done" /\ outcome = "stopped"
    /\ ~args.follow
    /\ raisedAt = "insert" /\ Interrupted
    /\ Len(attempts) = 2

\* C6: with SUPABASE_URL or SUPABASE_SERVICE_ROLE_KEY unset or empty, the
\* client is never constructed, no record is built and no insertion is
\* attempted, whatever count and follow are; once load_config has run (the
\* command line was accepted and no interrupt came first), main has failed
\* with the configuration error.
C6_MissingConfigFailsFast ==
    (env.SUPABASE_URL \in {<<>>, <<"">>}
        \/ env.SUPABASE_SERVICE_ROLE_KEY \in {<<>>, <<"">>}) =>
        /\ client = <<>>
        /\ built = 0
        /\ attempts = <<>>
        /\ sequence = 0
        /\ pc \in {"parse_args", "load_config", "raised", "done"}
        /\ (pc \in {"raised", "done"} /\ argv.valid /\ ~Interrupted) =>
              /\ raisedAt = "load_config"
              /\ exc.type = "RuntimeError"
              /\ exc.msg = "Missing SUPABASE_URL or SUPABASE_SERVICE_ROLE_KEY in env."
              /\ pc = "done" => outcome = "uncaught"

C6_Witness ==
    /\ pc = "done" /\ outcome = "uncaught"
    /\ env.SUPABASE_URL = <<"http://127.0.0.1:54321">>
    /\ env.SUPABASE_SERVICE_ROLE_KEY = <<"">>
    /\ args.follow /\ args.count = 3
    /\ exc.type = "RuntimeError" /\ raisedAt = "load_config"

\* C7: with an empty script name no record is built and insert_log is never
\* called; payload construction, when the loop comes to it, fails with the
\* validation error, which main does not catch (no stop acknowledgment).
C7_EmptyScriptNameFailsBeforeInsert ==
    (pc # "parse_args" /\ argv.valid /\ argv.script = <<"">>) =>
        /\ attempts = <<>>
        /\ built = 0
        /\ pc \notin {"insert", "print", "incr", "sleep", "sleeping"}
        /\ (raisedAt = "build" /\ ~Interrupted) =>
              /\ exc.type = "ValueError"
              /\ exc.msg = "script_name is required"
              /\ ~AckPrinted
              /\ pc = "done" => outcome = "uncaught"

C7_Witness ==
    /\ pc = "done" /\ outcome = "uncaught"
    /\ argv.script = <<"">> /\ args.script = ""
    /\ exc.type = "ValueError" /\ raisedAt = "build"
    /\ attempts = <<>>

\* C8: for a non-empty script name build_log_payload never fails, and the
\* record handed to insert_log has a level among the four levels, a message
\* among the eight templates, 45 <= execution_ms <= 1400, and the script name,
\* run_id and sequence it was given.
C8_PayloadWellFormed ==
    /\ (pc # "parse_args" /\ args.script # "" /\ raisedAt = "build") =>
          exc.type = "KeyboardInterrupt"
    /\ pc = "insert" =>
          /\ payload.level \in {"debug", "info", "warning", "error"}
          /\ payload.message \in
                { "Starting scheduled task", "Loading configuration",
                  "Fetching upstream payload", "Transforming dataset",
                  "Completed batch successfully",
                  "Retrying after transient failure",
                  "Writing output artifacts", "Heartbeat check" }
          /\ payload.metadata.execution_ms >= 45
          /\ payload.metadata.execution_ms <= 1400
          /\ payload.script_name = args.script
          /\ payload.script_name # ""
          /\ payload.metadata.run_id = run_id
          /\ payload.metadata.sequence = sequence
          /\ DOMAIN payload = {"script_name", "level", "message", "metadata"}
          /\ DOMAIN payload.metadata = {"run_id", "sequence", "execution_ms"}

C8_Witness ==
    /\ pc = "insert"
    /\ payload.level = "warning"
    /\ payload.message = "Heartbeat check"
    /\ payload.metadata.execution_ms = 1400
    /\ payload.metadata.sequence = 2
    /\ payload.script_name = "demo-script"

\* C9: the iterations run one after another in the order build, insert,
\* confirm, increment, delay.  When attempt k+1 begins, the k attempts before
\* it have all succeeded, each has been confirmed with its own sequence
\* number, and k full delays have elapsed.  Every successful insertion is
\* followed by a delay, the last of a bounded run included: whenever an
\* iteration is complete the confirmations and the delays started both number
\* the successful insertions.
C9_SequentialAndPaced ==
    /\ \A i \in 1..Len(Confirmations) :
          Confirmations[i] = <<"Inserted log", i, "for", args.script>>
    /\ pc = "insert" =>
          /\ AllSucceeded
          /\ sequence = Len(attempts) + 1
          /\ Len(Confirmations) = Len(attempts)
          /\ sleeps = Len(attempts)
          /\ elapsed = Len(attempts) * args.interval
    /\ pc = "print" =>
          /\ sequence = Successes
          /\ Len(Confirmations) = Successes - 1
          /\ sleeps = Successes - 1
    /\ pc = "incr" =>
          /\ sequence = Successes
          /\ Len(Confirmations) = Successes
          /\ sleeps = Successes - 1
    /\ pc = "sleep" =>
          /\ sequence = Successes + 1
          /\ Len(Confirmations) = Successes
          /\ sleeps = Successes - 1
    /\ pc = "sleeping" =>
          /\ sleeps = Successes
          /\ elapsed = (Successes - 1) * args.interval
    /\ (pc \in {"while", "build"} \/ outcome = "completed") =>
          /\ Len(Confirmations) = Successes
          /\ sleeps = Successes
          /\ elapsed = Successes * args.interval

C9_Witness ==
    /\ pc = "done" /\ outcome = "completed"
    /\ args.count = 3 /\ args.interval = 2
    /\ Successes = 3 /\ sleeps = 3 /\ elapsed = 6
    /\ Len(Confirmations) = 3

\* C10: the stop acknowledgment is printed exactly when an interrupt is
\* delivered inside run_writer.  An interrupt delivered during parse_args,
\* load_config or create_client leaves main uncaught: no acknowledgment, no
\* insertion.
C10_AckOnlyForInterruptInLoop ==
    /\ AckPrinted =>
          /\ Interrupted
          /\ raisedAt \in {"run_writer", "while", "build", "insert", "print",
                           "incr", "sleep", "sleeping"}
          /\ client # <<>>
    /\ (pc = "done" /\ Interrupted
           /\ raisedAt \in {"run_writer", "while", "build", "insert", "print",
                            "incr", "sleep", "sleeping"}) => AckPrinted
    /\ (Interrupted
           /\ raisedAt \in {"parse_args", "load_config", "create_client"}) =>
          /\ ~AckPrinted
          /\ attempts = <<>>
          /\ exc.type = "KeyboardInterrupt"
          /\ pc = "done" => outcome = "uncaught"

C10_Witness ==
    /\ pc = "done" /\ outcome = "uncaught"
    /\ raisedAt = "create_client" /\ Interrupted
    /\ stdout = <<>> /\ attempts = <<>>

====
